---- MODULE Spec2Model ----
(***************************************************************************)
(* Spark-compatible row hashing of zhudebin/blaze:                         *)
(*   native-engine/datafusion-ext-commons/src/spark_hash.rs                *)
(*   native-engine/datafusion-ext-functions/src/spark_xxhash64.rs          *)
(*                                                                         *)
(* Machine integers.  An i32 is an integer in -2^31 .. 2^31-1.  A wider    *)
(* integer (u64, i64, usize, i128, and the bits of f32/f64) is its         *)
(* sequence of 16-bit limbs, least significant limb first; a signed one    *)
(* is in two's complement.  Arithmetic wraps (the crate's tests only pass  *)
(* with wrapping `*` and `+`, spark_hash.rs:584-620).                      *)
(***************************************************************************)
EXTENDS Integers, Sequences, FiniteSets, TLC

VARIABLES
    target_endian,  \* cfg!(target_endian): byte order of the build target
    arrays,         \* create_hashes: the columns passed by the caller
    hashes_buffer,  \* create_hashes: the caller's accumulator buffer
    h,              \* create_hashes: the hash primitive passed in, or "none"
    col,            \* create_hashes: index of the next column of `for col in arrays`
    result,         \* create_hashes: "idle", "running", "ok", "err" or "panic"
    entry,          \* the accumulator buffer as it was when a column was entered
    errrow,         \* the row a failing column had reached (0: none entered)
    args,           \* arguments of a pure function under call
    ret             \* its return value, or "none"

vars == <<target_endian, arrays, hashes_buffer, h, col, result, entry, errrow, args, ret>>

----------------------------------------------------------------------------
(* Wrapping arithmetic on limb sequences. *)

LIMB == 2 ^ 16

Min(a, b) == IF a < b THEN a ELSE b
Max(a, b) == IF a > b THEN a ELSE b

\* bit k of a limb
Bit(x, k) == (x \div (2 ^ k)) % 2

\* ^ and | of two nibbles, bit by bit
XorNibble(x, y) ==
      ((Bit(x, 0) + Bit(y, 0)) % 2)
    + ((Bit(x, 1) + Bit(y, 1)) % 2) * 2
    + ((Bit(x, 2) + Bit(y, 2)) % 2) * 4
    + ((Bit(x, 3) + Bit(y, 3)) % 2) * 8

OrNibble(x, y) ==
      Max(Bit(x, 0), Bit(y, 0))
    + Max(Bit(x, 1), Bit(y, 1)) * 2
    + Max(Bit(x, 2), Bit(y, 2)) * 4
    + Max(Bit(x, 3), Bit(y, 3)) * 8

\* ^ and | of two limbs, nibble by nibble
RECURSIVE BitXor(_, _)
BitXor(x, y) ==
    IF x = 0 THEN y
    ELSE IF y = 0 THEN x
    ELSE XorNibble(x % 16, y % 16) + 16 * BitXor(x \div 16, y \div 16)

RECURSIVE BitOr(_, _)
BitOr(x, y) ==
    IF x = 0 THEN y
    ELSE IF y = 0 THEN x
    ELSE OrNibble(x % 16, y % 16) + 16 * BitOr(x \div 16, y \div 16)

\* low and high limb of the product of two limbs
MulLo(x, y) == ((x * (y % 256)) + 256 * ((x * (y \div 256)) % 256)) % LIMB
MulHi(x, y) ==
    ((x * (y % 256)) + 256 * ((x * (y \div 256)) % 256)) \div LIMB
        + ((x * (y \div 256)) \div 256)

RECURSIVE WZero(_)
WZero(n) == IF n = 0 THEN <<>> ELSE <<0>> \o WZero(n - 1)

RECURSIVE XorLimbs(_, _, _)
XorLimbs(wa, wb, k) ==
    IF k > Len(wa) THEN <<>>
    ELSE <<BitXor(wa[k], wb[k])>> \o XorLimbs(wa, wb, k + 1)

WXor[wa \in Seq(Nat), wb \in Seq(Nat)] == XorLimbs(wa, wb, 1)

RECURSIVE OrLimbs(_, _, _)
OrLimbs(wa, wb, k) ==
    IF k > Len(wa) THEN <<>>
    ELSE <<BitOr(wa[k], wb[k])>> \o OrLimbs(wa, wb, k + 1)

WOr[wa \in Seq(Nat), wb \in Seq(Nat)] == OrLimbs(wa, wb, 1)

\* limb k of a sum and the carry into the next
RECURSIVE AddLimbs(_, _, _, _)
RECURSIVE AddEmit(_, _, _, _)
AddLimbs(wa, wb, k, carry) ==
    IF k > Len(wa) THEN <<>> ELSE AddEmit(wa, wb, k, wa[k] + wb[k] + carry)

AddEmit(wa, wb, k, total) ==
    <<total % LIMB>> \o AddLimbs(wa, wb, k + 1, total \div LIMB)

WAdd[wa \in Seq(Nat), wb \in Seq(Nat)] == AddLimbs(wa, wb, 1, 0)

RECURSIVE NotLimbs(_, _)
NotLimbs(wa, k) ==
    IF k > Len(wa) THEN <<>> ELSE <<LIMB - 1 - wa[k]>> \o NotLimbs(wa, k + 1)

WNot(wa) == NotLimbs(wa, 1)

WOne(n) == <<1>> \o WZero(n - 1)

WNeg(wa) == WAdd[WNot(wa), WOne(Len(wa))]

WSub[wa \in Seq(Nat), wb \in Seq(Nat)] == WAdd[wa, WNeg(wb)]

\* sum over i = lo..k of the low (high) limbs of wa[i] * wb[top - i]
RECURSIVE SumLo(_, _, _, _, _)
SumLo(wa, wb, i, k, top) ==
    IF i > k THEN 0 ELSE MulLo(wa[i], wb[top - i]) + SumLo(wa, wb, i + 1, k, top)

RECURSIVE SumHi(_, _, _, _, _)
SumHi(wa, wb, i, k, top) ==
    IF i > k THEN 0 ELSE MulHi(wa[i], wb[top - i]) + SumHi(wa, wb, i + 1, k, top)

\* limb k of a product: the low limbs of the products wa[i] * wb[k+1-i], the
\* high limbs of the products one place below, and the carry
RECURSIVE MulLimbs(_, _, _, _)
RECURSIVE MulEmit(_, _, _, _)
MulLimbs(wa, wb, k, carry) ==
    IF k > Len(wa) THEN <<>>
    ELSE MulEmit(wa, wb, k,
                 SumLo(wa, wb, 1, k, k + 1) + SumHi(wa, wb, 1, k - 1, k) + carry)

MulEmit(wa, wb, k, total) ==
    <<total % LIMB>> \o MulLimbs(wa, wb, k + 1, total \div LIMB)

WMul[wa \in Seq(Nat), wb \in Seq(Nat)] == MulLimbs(wa, wb, 1, 0)

\* limb k of `wa`, 0 outside
LimbAt(wa, k) == IF k >= 1 /\ k <= Len(wa) THEN wa[k] ELSE 0

\* wa << amt and wa >> amt (logical), 0 <= amt < 16 * Len(wa)
RECURSIVE ShlLimbs(_, _, _)
ShlLimbs(wa, amt, k) ==
    IF k > Len(wa) THEN <<>>
    ELSE <<(LimbAt(wa, k - (amt \div 16)) % (2 ^ (16 - (amt % 16)))) * (2 ^ (amt % 16))
            + LimbAt(wa, k - (amt \div 16) - 1) \div (2 ^ (16 - (amt % 16)))>>
            \o ShlLimbs(wa, amt, k + 1)

WShl[wa \in Seq(Nat), amt \in Nat] == ShlLimbs(wa, amt, 1)

RECURSIVE ShrLimbs(_, _, _)
ShrLimbs(wa, amt, k) ==
    IF k > Len(wa) THEN <<>>
    ELSE <<LimbAt(wa, k + (amt \div 16)) \div (2 ^ (amt % 16))
            + (LimbAt(wa, k + (amt \div 16) + 1) % (2 ^ (amt % 16))) * (2 ^ (16 - (amt % 16)))>>
            \o ShrLimbs(wa, amt, k + 1)

WShr[wa \in Seq(Nat), amt \in Nat] == ShrLimbs(wa, amt, 1)

\* unsigned comparison
RECURSIVE LessFrom(_, _, _)
LessFrom(wa, wb, k) ==
    IF k = 0 THEN FALSE
    ELSE IF wa[k] # wb[k] THEN wa[k] < wb[k]
    ELSE LessFrom(wa, wb, k - 1)

WLess(wa, wb) == LessFrom(wa, wb, Len(wa))

\* the n-limb two's complement of an integer (sign extension)
RECURSIVE SignLimbs(_, _)
SignLimbs(x, n) == IF n <= 0 THEN <<>> ELSE <<IF x < 0 THEN LIMB - 1 ELSE 0>> \o SignLimbs(x, n - 1)

IntToW(x, n) == <<x % LIMB, (x \div LIMB) % LIMB>> \o SignLimbs(x, n - 2)

\* the i32 with the given low 32 bits (`as i32`)
WToI32(w) ==
    IF w[2] >= 32768 THEN (w[2] - LIMB) * LIMB + w[1] ELSE w[2] * LIMB + w[1]

I32ToW(x) == <<x % LIMB, (x \div LIMB) % LIMB>>

\* little-endian bytes of a limb sequence, and back
RECURSIVE LeBytesFrom(_, _)
LeBytesFrom(w, k) ==
    IF k > Len(w) THEN <<>> ELSE <<w[k] % 256, w[k] \div 256>> \o LeBytesFrom(w, k + 1)

WToLeBytes(w) == LeBytesFrom(w, 1)

RECURSIVE LimbsFrom(_, _)
LimbsFrom(bytes, k) ==
    IF 2 * k > Len(bytes) THEN <<>>
    ELSE <<bytes[2 * k - 1] + 256 * bytes[2 * k]>> \o LimbsFrom(bytes, k + 1)

LeBytesToW(bytes) == LimbsFrom(bytes, 1)

RECURSIVE Reverse(_)
Reverse(s) == IF Len(s) = 0 THEN <<>> ELSE Append(Reverse(Tail(s)), Head(s))

\* i32 operators of the source
wrapping_mul[x \in Int, y \in Int] == WToI32(WMul[I32ToW(x), I32ToW(y)])
wrapping_add[x \in Int, y \in Int] == WToI32(WAdd[I32ToW(x), I32ToW(y)])
xor32[x \in Int, y \in Int] == WToI32(WXor[I32ToW(x), I32ToW(y)])
rotate_left[x \in Int, n \in Nat] ==
    WToI32(WOr[WShl[I32ToW(x), n % 32], WShr[I32ToW(x), (32 - (n % 32)) % 32]])
\* ((x as u32) >> n) as i32
shr_u32[x \in Int, n \in Nat] == WToI32(WShr[I32ToW(x), n])

\* bit k of a limb sequence, 0 = lowest
BitAt(w, k) == (w[(k \div 16) + 1] \div (2 ^ (k % 16))) % 2

\* sum over j = from..15 of bit (31 - lo - j) of w, at weight 2^j
RECURSIVE ReversedLimb(_, _, _)
ReversedLimb(w, lo, from) ==
    IF from > 15 THEN 0
    ELSE BitAt(w, 31 - (lo + from)) * (2 ^ from) + ReversedLimb(w, lo, from + 1)

\* i32::reverse_bits
reverse_bits[x \in Int] ==
    WToI32(<<ReversedLimb(I32ToW(x), 0, 0), ReversedLimb(I32ToW(x), 16, 0)>>)

\* 0x........u32 as i32, from its two 16-bit halves
U32AsI32(hi, lo) == WToI32(<<lo, hi>>)
\* 0x................u64, from its four 16-bit quarters, highest first
U64(q3, q2, q1, q0) == <<q0, q1, q2, q3>>

----------------------------------------------------------------------------
(* mod mur3, spark_hash.rs:56-111 *)

mix_k1(k1) ==
    LET a == wrapping_mul[k1, U32AsI32(\hcc9e, \h2d51)]
        b == rotate_left[a, 15]
    IN  wrapping_mul[b, U32AsI32(\h1b87, \h3593)]

mix_h1(h1, k1) ==
    LET a == xor32[h1, k1]
        b == rotate_left[a, 13]
    IN  wrapping_add[wrapping_mul[b, 5], U32AsI32(\he654, \h6b64)]

\* h1 ^= ((h1 as u32) >> n) as i32
xor_shr(h1, n) == xor32[h1, shr_u32[h1, n]]

fmix(h1, len) ==
    xor_shr(wrapping_mul[
                xor_shr(wrapping_mul[
                            xor_shr(xor32[h1, len], 16),
                            U32AsI32(\h85eb, \hca6b)],
                        13),
                U32AsI32(\hc2b2, \hae35)],
            16)

\* std::ptr::read_unaligned(data.as_ptr().add(i) as *const i32): the four
\* bytes at offset i (0-based) in the byte order of the target
read_unaligned_i32(data, i) ==
    LET b == SubSeq(data, i + 1, i + 4)
    IN  WToI32(LeBytesToW(IF target_endian = "big" THEN Reverse(b) ELSE b))

RECURSIVE hash_bytes_by_int_from(_, _, _)
hash_bytes_by_int_from(data, i, h1) ==
    IF i >= Len(data) THEN h1
    ELSE hash_bytes_by_int_from(data, i + 4,
            mix_h1(h1, mix_k1(IF target_endian = "big"
                              THEN reverse_bits[read_unaligned_i32(data, i)]
                              ELSE read_unaligned_i32(data, i))))

hash_bytes_by_int(data, seed) == hash_bytes_by_int_from(data, 0, seed)

\* hash_long mixing the high word before the low word
hash_long_high_word_first(input, seed) ==
    fmix(mix_h1(mix_h1(seed, mix_k1(WToI32(WShr[input, 32]))),
                mix_k1(WToI32(input))),
         8)

hash_long(input, seed) ==
    fmix(mix_h1(mix_h1(seed, mix_k1(WToI32(input))),
                mix_k1(WToI32(WShr[input, 32]))),
         8)

\* a trailing byte taken as unsigned
u8_as_i32(b) == b

\* `*data.get_unchecked(i) as i8 as i32`
u8_as_i8_as_i32(b) == IF b >= 128 THEN b - 256 ELSE b

RECURSIVE murmur3_tail(_, _, _)
murmur3_tail(data, i, h1) ==
    IF i >= Len(data) THEN h1
    ELSE murmur3_tail(data, i + 1, mix_h1(h1, mix_k1(u8_as_i8_as_i32(data[i + 1]))))

spark_compatible_murmur3_hash(data, seed) ==
    fmix(murmur3_tail(data, Len(data) - (Len(data) % 4),
                      hash_bytes_by_int(SubSeq(data, 1, Len(data) - (Len(data) % 4)),
                                        seed)),
         Len(data))

spark_compatible_murmur3_hash_long(value, seed) == hash_long(value, seed)

----------------------------------------------------------------------------
(* mod xxhash64, spark_hash.rs:118-228 *)

PRIME64_1 == U64(\h9E37, \h79B1, \h85EB, \hCA87)
PRIME64_2 == U64(\hC2B2, \hAE3D, \h27D4, \hEB4F)
PRIME64_3 == U64(\h1656, \h67B1, \h9E37, \h79F9)
PRIME64_4 == U64(\h85EB, \hCA77, \hC2B2, \hAE63)
PRIME64_5 == U64(\h27D4, \hEB2F, \h1656, \h67C5)

xxh_rotl64(value, amt) == WOr[WShl[value, amt % 64], WShr[value, 64 - (amt % 64)]]

xxh64_round(acc, input) ==
    WMul[xxh_rotl64(WAdd[acc, WMul[input, PRIME64_2]], 31), PRIME64_1]

xxh64_merge_round(hash, acc) ==
    WAdd[WMul[WXor[hash, xxh64_round(WZero(4), acc)], PRIME64_1], PRIME64_4]

\* hash ^= hash >> n
xxh_xor_shr(hash, n) == WXor[hash, WShr[hash, n]]

xxh64_avalanche(hash) ==
    xxh_xor_shr(WMul[xxh_xor_shr(WMul[xxh_xor_shr(hash, 33), PRIME64_2], 29),
                     PRIME64_3],
                32)

\* read_unaligned of a u32 / u64 at `offset`, in the byte order of the target
xxh_read32(data, offset) ==
    LET b == SubSeq(data, offset + 1, offset + 4)
    IN  LeBytesToW(IF target_endian = "big" THEN Reverse(b) ELSE b)

xxh_read64(data, offset) ==
    LET b == SubSeq(data, offset + 1, offset + 8)
    IN  LeBytesToW(IF target_endian = "big" THEN Reverse(b) ELSE b)

\* u32 as u64, u8 as u64, usize as u64
u32_as_u64(w) == <<w[1], w[2], 0, 0>>
small_as_u64(x) == <<x % LIMB, x \div LIMB, 0, 0>>

\* `while remaining != 0`, then the avalanche
RECURSIVE xxh64_tail1(_, _, _)
xxh64_tail1(input, offset, hash) ==
    IF Len(input) - offset = 0 THEN xxh64_avalanche(hash)
    ELSE xxh64_tail1(input, offset + 1,
            WMul[xxh_rotl64(WXor[hash,
                    WMul[small_as_u64(input[offset + 1]), PRIME64_5]], 11),
                 PRIME64_1])

\* `if remaining >= 4`, and what follows it
xxh64_tail4(input, offset, hash) ==
    xxh64_tail1(input,
        IF Len(input) - offset < 4 THEN offset ELSE offset + 4,
        IF Len(input) - offset < 4 THEN hash
        ELSE WAdd[WMul[xxh_rotl64(WXor[hash,
                        WMul[u32_as_u64(xxh_read32(input, offset)), PRIME64_1]], 23),
                      PRIME64_2],
                 PRIME64_3])

\* `while remaining >= 8`, and what follows it
RECURSIVE xxh64_tail8(_, _, _)
xxh64_tail8(input, offset, hash) ==
    IF Len(input) - offset < 8 THEN xxh64_tail4(input, offset, hash)
    ELSE xxh64_tail8(input, offset + 8,
            WAdd[WMul[xxh_rotl64(WXor[hash,
                        xxh64_round(WZero(4), xxh_read64(input, offset))], 27),
                      PRIME64_1],
                 PRIME64_4])

\* the four lanes merged into the hash after the bulk loop
xxh64_merge(acc) ==
    xxh64_merge_round(xxh64_merge_round(xxh64_merge_round(xxh64_merge_round(
        WAdd[WAdd[WAdd[xxh_rotl64(acc[1], 1), xxh_rotl64(acc[2], 7)],
                  xxh_rotl64(acc[3], 12)],
             xxh_rotl64(acc[4], 18)],
        acc[1]), acc[2]), acc[3]), acc[4])

\* the tails entered without the length added
xxh64_without_len(input, offset, hash) == xxh64_tail8(input, offset, hash)

\* hash += input.len() as u64, and what follows it
xxh64_add_len(input, offset, hash) ==
    xxh64_tail8(input, offset, WAdd[hash, small_as_u64(Len(input))])

\* `while remaining >= 32`, and what follows it
RECURSIVE xxh64_lanes(_, _, _)
xxh64_lanes(input, offset, acc) ==
    IF Len(input) - offset < 32 THEN xxh64_add_len(input, offset, xxh64_merge(acc))
    ELSE xxh64_lanes(input, offset + 32,
            <<xxh64_round(acc[1], xxh_read64(input, offset)),
              xxh64_round(acc[2], xxh_read64(input, offset + 8)),
              xxh64_round(acc[3], xxh_read64(input, offset + 16)),
              xxh64_round(acc[4], xxh_read64(input, offset + 24))>>)

xxhash64(input, seed) ==
    IF Len(input) >= 32
    THEN xxh64_lanes(input, 0,
            <<WAdd[WAdd[seed, PRIME64_1], PRIME64_2],
              WAdd[seed, PRIME64_2],
              WAdd[seed, WZero(4)],
              WSub[seed, PRIME64_1]>>)
    ELSE xxh64_add_len(input, 0, WAdd[seed, PRIME64_5])

\* `seed as u64` and `as i64` keep the bits
spark_compatible_xxhash64_hash(data, seed) == xxhash64(data, seed)

----------------------------------------------------------------------------
(* Arrow arrays as the hasher sees them.  Rows are numbered from 1 here    *)
(* (row k is index k-1 of the source).                                     *)
(*   data_type  the logical type: id, and unit/tz of a Timestamp, key of a *)
(*              Dictionary                                                 *)
(*   valid      the validity of each row; len is the row count             *)
(*   values     per row: the value of a primitive row (an integer for      *)
(*              Int8/16/32 and Date32, limbs for wider ones and for float  *)
(*              bits, a BOOLEAN, the bytes of a binary/text row), the key  *)
(*              of a Dictionary row, ListArray::value(i) or                *)
(*              MapArray::value(i) (an array) of a List or Map row         *)
(*   children   the dictionary's values array, or the columns of a Struct  *)

DataType(id) == [id |-> id, unit |-> "", tz |-> FALSE, key |-> ""]
Timestamp(unit, tz) == [id |-> "Timestamp", unit |-> unit, tz |-> tz, key |-> ""]
Dictionary(key) == [id |-> "Dictionary", unit |-> "", tz |-> FALSE, key |-> key]

Array(dt, valid, values, children) ==
    [data_type |-> dt, len |-> Len(valid), valid |-> valid,
     values |-> values, children |-> children]

null_count(array) == Cardinality({k \in 1..array.len : ~array.valid[k]})
is_null(array, k) == ~array.valid[k]
is_valid(array, k) == array.valid[k]

\* the closures of create_murmur3_hashes / create_xxhash64_hashes
Call(hf, data, seed) ==
    IF hf = "murmur3" THEN spark_compatible_murmur3_hash(data, seed)
    ELSE spark_compatible_xxhash64_hash(data, seed)

\* T::zero() for the accumulator type of the primitive
Zero(hf) == IF hf = "murmur3" THEN 0 ELSE WZero(4)

\* vec![T::zero(); n]
RECURSIVE Zeros(_, _)
Zeros(hf, n) == IF n = 0 THEN <<>> ELSE <<Zero(hf)>> \o Zeros(hf, n - 1)

\* a cast to i32 that fills the upper half with zeros
to_le_bytes_zero_extended(ty, value) ==
    IF ty = "i32" THEN WToLeBytes(<<value % LIMB, 0>>) ELSE WToLeBytes(value)

\* (*value as $ty).to_le_bytes()
to_le_bytes(ty, value) ==
    IF ty = "i32" THEN WToLeBytes(I32ToW(value)) ELSE WToLeBytes(value)

\* (if value { 1u32 } else { 0u32 }).to_le_bytes()
bool_to_le_bytes(value) == WToLeBytes(I32ToW(IF value THEN 1 ELSE 0))

Done(buf) == [buf |-> buf, status |-> "ok", row |-> 0]

\* the bytes handed to the primitive for a value: as_ref() of a binary or text
\* value, to_le_bytes() of a boolean as u32, of a decimal's i128, of a primitive
\* cast to $ty
ValueBytes(ty, value) ==
    CASE ty = "bytes" -> value
      [] ty = "bool" -> bool_to_le_bytes(value)
      [] OTHER -> to_le_bytes(ty, value)

\* rows k..n of a column folded into their accumulators; with nulls in the array
\* a null row is skipped (`if !array.is_null(i)`)
RECURSIVE hash_rows(_, _, _, _, _, _, _)
hash_rows(array, ty, hashes, k, n, nonull, hf) ==
    IF k > Len(hashes) THEN <<>>
    ELSE <<IF k <= n /\ (nonull \/ ~is_null(array, k))
           THEN Call(hf, ValueBytes(ty, array.values[k]), hashes[k])
           ELSE hashes[k]>>
            \o hash_rows(array, ty, hashes, k + 1, n, nonull, hf)

\* for (i, hash) in hashes.iter_mut().enumerate(): array.value(i) and
\* array.is_null(i) are bounds-checked and panic at the first row past the end
hash_each_value(array, ty, hashes, hf) ==
    [buf |-> hash_rows(array, ty, hashes, 1, Min(array.len, Len(hashes)),
                       null_count(array) = 0, hf),
     status |-> IF Len(hashes) > array.len THEN "panic" ELSE "ok",
     row |-> IF Len(hashes) > array.len THEN array.len + 1 ELSE 0]

\* macro hash_array!, spark_hash.rs:230-245
hash_array_bytes(array, hashes, hf) == hash_each_value(array, "bytes", hashes, hf)

\* the Boolean arm, spark_hash.rs:349-372
hash_array_boolean(array, hashes, hf) == hash_each_value(array, "bool", hashes, hf)

\* macro hash_array_decimal!, spark_hash.rs:266-282
hash_array_decimal(array, hashes, hf) == hash_each_value(array, "i128", hashes, hf)

\* a loop that seeds every row with the accumulator of the first row
hash_array_primitive_from_first(array, ty, hashes, hf) ==
    Done(hash_rows(array, ty, [k \in 1..Len(hashes) |-> hashes[1]], 1,
                   Min(Len(hashes), Len(array.values)), null_count(array) = 0, hf))

\* macro hash_array_primitive!, spark_hash.rs:247-264: zip stops at the
\* shorter of the two
hash_array_primitive(array, ty, hashes, hf) ==
    Done(hash_rows(array, ty, hashes, 1, Min(Len(hashes), Len(array.values)),
                   null_count(array) = 0, hf))

IsTimeUnit(u) == u \in {"Second", "Millisecond", "Microsecond", "Nanosecond"}

\* the $ty of the hash_array_primitive! arm that takes the type (spark_hash.rs:373-410),
\* "" when none does
hash_array_ty(dt) ==
    CASE dt.id \in {"Int8", "Int16", "Int32", "Date32"} -> "i32"
      [] dt.id \in {"Int64", "Date64"} -> "i64"
      [] dt.id = "Float32" -> "f32"
      [] dt.id = "Float64" -> "f64"
      [] dt.id = "Timestamp" /\ IsTimeUnit(dt.unit) -> "i64"
      [] OTHER -> ""

\* the $ty of the hash_one_primitive!/hash_one_binary!/hash_one_decimal! arm of
\* hash_one that takes the type (spark_hash.rs:467-532), "" when none does; the
\* timestamp arms are (Second | Millisecond | Microsecond, None) and (Nanosecond, _)
hash_one_ty(dt) ==
    CASE dt.id = "Boolean" -> "bool"
      [] dt.id \in {"Int8", "Int16", "Int32", "Date32"} -> "i32"
      [] dt.id \in {"Int64", "Date64"} -> "i64"
      [] dt.id = "Float32" -> "f32"
      [] dt.id = "Float64" -> "f64"
      [] dt.id = "Timestamp" /\ dt.unit \in {"Second", "Millisecond", "Microsecond"}
            /\ ~dt.tz -> "i64"
      [] dt.id = "Timestamp" /\ dt.unit = "Nanosecond" -> "i64"
      [] dt.id \in {"Binary", "LargeBinary", "Utf8", "LargeUtf8"} -> "bytes"
      [] dt.id = "Decimal128" -> "i128"
      [] OTHER -> ""

Ok(hash) == [hash |-> hash, status |-> "ok"]
Err(hash) == [hash |-> hash, status |-> "err"]

RECURSIVE hash_one(_, _, _, _)
RECURSIVE hash_one_list(_, _, _, _)
RECURSIVE hash_one_list_next(_, _, _, _)
RECURSIVE hash_one_map(_, _, _, _)
RECURSIVE hash_one_map_value(_, _, _, _)
RECURSIVE hash_one_map_next(_, _, _, _)
RECURSIVE hash_one_struct(_, _, _, _, _)
RECURSIVE hash_one_struct_next(_, _, _, _, _)

\* hash_one, spark_hash.rs:464-560: the accumulator it leaves and Ok or Err
hash_one(column, idx, hash, hf) ==
    IF ~is_valid(column, idx) THEN Ok(hash)
    ELSE CASE column.data_type.id = "Null" -> Ok(hash)
           [] hash_one_ty(column.data_type) # "" ->
                Ok(Call(hf, ValueBytes(hash_one_ty(column.data_type), column.values[idx]),
                        hash))
           [] column.data_type.id = "List" ->
                hash_one_list(column.values[idx], 1, hash, hf)
           [] column.data_type.id = "Map" ->
                hash_one_map(column.values[idx], 1, hash, hf)
           [] column.data_type.id = "Struct" ->
                hash_one_struct(column.children, 1, idx, hash, hf)
           [] OTHER -> Err(hash)

\* for i in 0..value_array.len() { hash_one(&value_array, i, hash, h)?; }
hash_one_list(value_array, i, hash, hf) ==
    IF i > value_array.len THEN Ok(hash)
    ELSE hash_one_list_next(value_array, i, hash_one(value_array, i, hash, hf), hf)

\* the `?` on element i: r is what hash_one returned
hash_one_list_next(value_array, i, r, hf) ==
    IF r.status # "ok" THEN r ELSE hash_one_list(value_array, i + 1, r.hash, hf)

\* a map loop that hashes the value of an entry before its key
hash_one_map_value_first(kv_array, i, hash, hf) ==
    IF i > kv_array.len THEN Ok(hash)
    ELSE hash_one_map_next(kv_array, i,
            hash_one(kv_array.children[1], i,
                     hash_one(kv_array.children[2], i, hash, hf).hash, hf), hf)

\* for i in 0..kv_array.len(): the key, then the value
hash_one_map(kv_array, i, hash, hf) ==
    IF i > kv_array.len THEN Ok(hash)
    ELSE hash_one_map_value(kv_array, i, hash_one(kv_array.children[1], i, hash, hf), hf)

\* the `?` on key i, then the value
hash_one_map_value(kv_array, i, r, hf) ==
    IF r.status # "ok" THEN r
    ELSE hash_one_map_next(kv_array, i, hash_one(kv_array.children[2], i, r.hash, hf), hf)

\* the `?` on value i
hash_one_map_next(kv_array, i, r, hf) ==
    IF r.status # "ok" THEN r ELSE hash_one_map(kv_array, i + 1, r.hash, hf)

\* for col in struct_array.columns() { hash_one(col, idx, hash, h)?; }
hash_one_struct(columns, c, idx, hash, hf) ==
    IF c > Len(columns) THEN Ok(hash)
    ELSE hash_one_struct_next(columns, c, idx, hash_one(columns[c], idx, hash, hf), hf)

\* the `?` on column c
hash_one_struct_next(columns, c, idx, r, hf) ==
    IF r.status # "ok" THEN r ELSE hash_one_struct(columns, c + 1, idx, r.hash, hf)

\* the `_` arm of hash_array, spark_hash.rs:431-435:
\* for idx in 0..array.len() { hash_one(array, idx, &mut hashes_buffer[idx], h)?; }
RECURSIVE hash_array_rows(_, _, _, _)
RECURSIVE hash_array_rows_next(_, _, _, _, _)
hash_array_rows(array, hashes, idx, hf) ==
    IF idx > array.len THEN Done(hashes)
    ELSE IF idx > Len(hashes) THEN [buf |-> hashes, status |-> "panic", row |-> idx]
    ELSE hash_array_rows_next(array, hashes, idx, hash_one(array, idx, hashes[idx], hf), hf)

\* the `?` on row idx: r is what hash_one returned through &mut hashes_buffer[idx]
hash_array_rows_next(array, hashes, idx, r, hf) ==
    IF r.status # "ok"
    THEN [buf |-> [hashes EXCEPT ![idx] = r.hash], status |-> r.status, row |-> idx]
    ELSE hash_array_rows(array, [hashes EXCEPT ![idx] = r.hash], idx + 1, hf)

RECURSIVE create_hashes(_, _, _)
RECURSIVE create_hashes_from(_, _, _, _)
RECURSIVE create_hashes_next(_, _, _, _)
RECURSIVE hash_array(_, _, _)
RECURSIVE create_hashes_dictionary(_, _, _)
RECURSIVE dictionary_rows(_, _, _, _)
RECURSIVE dictionary_keys(_, _, _)

\* the key loop of create_hashes_dictionary, spark_hash.rs:299-310; K::to_usize
\* is None for a negative key, and dict_hashes[idx] is bounds-checked
dictionary_rows(dict_array, dict_hashes, hashes, k) ==
    IF k > Min(Len(hashes), dict_array.len) THEN Done(hashes)
    ELSE IF ~dict_array.valid[k] THEN dictionary_rows(dict_array, dict_hashes, hashes, k + 1)
    ELSE IF dict_array.values[k] < 0 THEN [buf |-> hashes, status |-> "err", row |-> k]
    ELSE IF dict_array.values[k] >= Len(dict_hashes)
         THEN [buf |-> hashes, status |-> "panic", row |-> k]
    ELSE dictionary_rows(dict_array, dict_hashes,
            [hashes EXCEPT ![k] = dict_hashes[dict_array.values[k] + 1]], k + 1)

\* the `?` on create_hashes(&[dict_values], &mut dict_hashes, h), then the keys
dictionary_keys(array, dict_hashes, hashes_buffer_) ==
    IF dict_hashes.status # "ok"
    THEN [buf |-> hashes_buffer_, status |-> dict_hashes.status, row |-> 0]
    ELSE dictionary_rows(array, dict_hashes.buf, hashes_buffer_, 1)

\* create_hashes_dictionary, spark_hash.rs:285-312
create_hashes_dictionary(array, hashes_buffer_, hf) ==
    dictionary_keys(array,
        create_hashes(<<array.children[1]>>, Zeros(hf, array.children[1].len), hf),
        hashes_buffer_)

\* hash_array, spark_hash.rs:342-438
hash_array(array, hashes_buffer_, hf) ==
    CASE array.data_type.id = "Null" -> Done(hashes_buffer_)
      [] array.data_type.id = "Boolean" -> hash_array_boolean(array, hashes_buffer_, hf)
      [] hash_array_ty(array.data_type) # "" ->
            hash_array_primitive(array, hash_array_ty(array.data_type), hashes_buffer_, hf)
      [] array.data_type.id \in {"Binary", "LargeBinary", "Utf8", "LargeUtf8"} ->
            hash_array_bytes(array, hashes_buffer_, hf)
      [] array.data_type.id = "Decimal128" -> hash_array_decimal(array, hashes_buffer_, hf)
      [] array.data_type.id = "Dictionary" ->
            IF array.data_type.key \in {"Int8", "Int16", "Int32", "Int64"}
            THEN create_hashes_dictionary(array, hashes_buffer_, hf)
            ELSE [buf |-> hashes_buffer_, status |-> "err", row |-> 0]
      [] OTHER -> hash_array_rows(array, hashes_buffer_, 1, hf)

\* create_hashes, spark_hash.rs:331-340: `for col in arrays { hash_array(..)?; }`
create_hashes_from(arrays_, c, hashes_buffer_, hf) ==
    IF c > Len(arrays_) THEN [buf |-> hashes_buffer_, status |-> "ok", col |-> c, row |-> 0]
    ELSE create_hashes_next(arrays_, c, hash_array(arrays_[c], hashes_buffer_, hf), hf)

\* the `?` on column c: r is what hash_array returned
create_hashes_next(arrays_, c, r, hf) ==
    IF r.status # "ok" THEN [buf |-> r.buf, status |-> r.status, col |-> c, row |-> r.row]
    ELSE create_hashes_from(arrays_, c + 1, r.buf, hf)

create_hashes(arrays_, hashes_buffer_, hf) ==
    create_hashes_from(arrays_, 1, hashes_buffer_, hf)

create_murmur3_hashes(arrays_, hashes_buffer_) ==
    create_hashes(arrays_, hashes_buffer_, "murmur3")

create_xxhash64_hashes(arrays_, hashes_buffer_) ==
    create_hashes(arrays_, hashes_buffer_, "xxhash64")

----------------------------------------------------------------------------
(* The callers' inputs.  A column of a given kind has the row count the    *)
(* batch asks for; its rows cycle through a few values of its type.        *)

MaxRows == 2    \* rows of a batch
MaxCols == 2    \* columns of a batch

Cycle(s, k) == s[((k - 1) % Len(s)) + 1]

I64_MIN == <<0, 0, 0, 32768>>
I64_MAX == <<65535, 65535, 65535, 32767>>

SmallInts == <<1, -1, 127>>
LongInts == <<IntToW(1, 4), I64_MIN, IntToW(-1, 4)>>
FloatBits == <<I32ToW(U32AsI32(\h3f80, 0)), I32ToW(U32AsI32(\h8000, 0)), I32ToW(0)>>
DoubleBits == <<U64(\h3ff0, 0, 0, 0), U64(\h8000, 0, 0, 0), U64(0, 0, 0, 0)>>
DecimalInts == <<IntToW(12345, 8), IntToW(-1, 8), IntToW(0, 8)>>
ByteStrings == <<<<97>>, <<>>, <<97, 98, 99, 100, 101>>>>
Booleans == <<TRUE, FALSE, TRUE>>

\* validity of n rows: all valid ("none"), the odd rows null ("some"), all null
RECURSIVE Validity(_, _)
Validity(nulls, n) ==
    IF n = 0 THEN <<>>
    ELSE Append(Validity(nulls, n - 1), IF nulls = "some" THEN n % 2 = 0 ELSE nulls # "all")

RECURSIVE Rows(_, _)
Rows(values, n) == IF n = 0 THEN <<>> ELSE Append(Rows(values, n - 1), Cycle(values, n))

Plain(dt, values, nulls, n) == Array(dt, Validity(nulls, n), Rows(values, n), <<>>)

Int32Of(valid, values) == Array(DataType("Int32"), valid, values, <<>>)
Utf8Of(valid, values) == Array(DataType("Utf8"), valid, values, <<>>)
UInt32Of(valid, values) == Array(DataType("UInt32"), valid, values, <<>>)

\* ListArray::value(i) / the entries of MapArray::value(i), row by row
ListRows ==
    <<Int32Of(<<TRUE, FALSE, TRUE>>, <<1, 0, 2>>),
      Int32Of(<<>>, <<>>),
      Int32Of(<<TRUE>>, <<3>>)>>

MapRows ==
    <<Array(DataType("Struct"), <<TRUE, TRUE>>, <<>>,
            <<Int32Of(<<TRUE, TRUE>>, <<0, 1>>),
              Utf8Of(<<FALSE, TRUE>>, <<<<>>, <<97>>>>)>>),
      Array(DataType("Struct"), <<>>, <<>>, <<Int32Of(<<>>, <<>>), Utf8Of(<<>>, <<>>)>>),
      Array(DataType("Struct"), <<TRUE>>, <<>>,
            <<Int32Of(<<TRUE>>, <<2>>), Utf8Of(<<TRUE>>, <<<<98, 99>>>>)>>)>>

\* a map whose values are of an unsupported type (test_map_array builds one)
MapUInt32Rows ==
    <<Array(DataType("Struct"), <<TRUE, TRUE>>, <<>>,
            <<Int32Of(<<TRUE, TRUE>>, <<0, 1>>),
              UInt32Of(<<FALSE, TRUE>>, <<0, 10>>)>>),
      Array(DataType("Struct"), <<TRUE>>, <<>>,
            <<Int32Of(<<TRUE>>, <<3>>), UInt32Of(<<FALSE>>, <<0>>)>>)>>

DictValues == Utf8Of(<<TRUE, TRUE>>, <<<<97>>, <<98, 99>>>>)
DictValuesWithNull == Utf8Of(<<TRUE, FALSE>>, <<<<97>>, <<>>>>)

Kinds ==
    <<"Null", "Boolean", "Int8", "Int16", "Int32", "Int64", "Float32", "Float64",
      "TimestampSecond", "TimestampMillisecondTz", "TimestampMicrosecond",
      "TimestampNanosecond", "Date32", "Date64", "Binary", "LargeBinary", "Utf8",
      "LargeUtf8", "Decimal128", "Dictionary", "DictionaryInt64Key",
      "DictionaryNullValue", "DictionaryUInt8Key", "DictionaryNegativeKey",
      "DictionaryKeyTooLarge", "DictionaryOfUInt32", "List", "Map", "Struct",
      "MapUInt32", "UInt32">>

\* the kinds that also appear in batches of several columns
CoreKinds == <<"Int32", "Utf8", "Dictionary", "List", "UInt32">>

Column(kind, nulls, n) ==
    LET valid == Validity(nulls, n)
        prim(id, values) == Plain(DataType(id), values, nulls, n)
        dict(key, keys, values) == Array(Dictionary(key), valid, Rows(keys, n), <<values>>)
    IN  CASE kind = "Null" -> Array(DataType("Null"), Validity("all", n), Rows(<<0>>, n), <<>>)
          [] kind = "Boolean" -> prim("Boolean", Booleans)
          [] kind \in {"Int8", "Int16", "Int32", "Date32"} -> prim(kind, SmallInts)
          [] kind \in {"Int64", "Date64"} -> prim(kind, LongInts)
          [] kind = "Float32" -> prim(kind, FloatBits)
          [] kind = "Float64" -> prim(kind, DoubleBits)
          [] kind = "TimestampSecond" -> Plain(Timestamp("Second", FALSE), LongInts, nulls, n)
          [] kind = "TimestampMillisecondTz" ->
                Plain(Timestamp("Millisecond", TRUE), LongInts, nulls, n)
          [] kind = "TimestampMicrosecond" ->
                Plain(Timestamp("Microsecond", FALSE), LongInts, nulls, n)
          [] kind = "TimestampNanosecond" ->
                Plain(Timestamp("Nanosecond", TRUE), LongInts, nulls, n)
          [] kind \in {"Binary", "LargeBinary", "Utf8", "LargeUtf8"} -> prim(kind, ByteStrings)
          [] kind = "Decimal128" -> prim(kind, DecimalInts)
          [] kind = "Dictionary" -> dict("Int8", <<1, 0, 1>>, DictValues)
          [] kind = "DictionaryInt64Key" -> dict("Int64", <<0, 1, 1>>, DictValues)
          [] kind = "DictionaryNullValue" -> dict("Int32", <<0, 1, 1>>, DictValuesWithNull)
          [] kind = "DictionaryUInt8Key" -> dict("UInt8", <<1, 0, 1>>, DictValues)
          [] kind = "DictionaryNegativeKey" -> dict("Int8", <<0, -1, 1>>, DictValues)
          [] kind = "DictionaryKeyTooLarge" -> dict("Int16", <<1, 2, 0>>, DictValues)
          [] kind = "DictionaryOfUInt32" ->
                dict("Int8", <<1, 0, 1>>, UInt32Of(<<FALSE, TRUE>>, <<0, 7>>))
          [] kind = "List" -> Array(DataType("List"), valid, Rows(ListRows, n), <<>>)
          [] kind = "Map" -> Array(DataType("Map"), valid, Rows(MapRows, n), <<>>)
          [] kind = "MapUInt32" -> Array(DataType("Map"), valid, Rows(MapUInt32Rows, n), <<>>)
          [] kind = "Struct" ->
                Array(DataType("Struct"), valid, <<>>,
                      <<Plain(DataType("Int32"), SmallInts, "none", n),
                        Plain(DataType("Utf8"), ByteStrings, "some", n),
                        Plain(DataType("Boolean"), Booleans, "none", n)>>)
          [] kind = "UInt32" -> prim("UInt32", SmallInts)

RECURSIVE SeqsOf(_, _)
SeqsOf(S, n) == IF n = 0 THEN {<<>>}
                ELSE {Append(q, x) : q \in SeqsOf(S, n - 1), x \in S}

\* a batch of n rows of several core columns, from the indices of their kinds
RECURSIVE CoreBatch(_, _)
CoreBatch(q, n) ==
    IF Len(q) = 0 THEN <<>>
    ELSE Append(CoreBatch(SubSeq(q, 1, Len(q) - 1), n),
                Column(CoreKinds[q[Len(q)]], IF Len(q) % 2 = 1 THEN "some" ELSE "none", n))

\* the accumulators the caller seeded: the reference engine's seed 42 in every
\* row, or a different value in every row
SeedInt(seeding, k) == IF seeding = "42" THEN 42 ELSE Cycle(<<0, 7, -1>>, k)

RECURSIVE Accumulators(_, _, _)
Accumulators(hf, seeding, n) ==
    IF n = 0 THEN <<>>
    ELSE Append(Accumulators(hf, seeding, n - 1),
                IF hf = "murmur3" THEN SeedInt(seeding, n) ELSE IntToW(SeedInt(seeding, n), 4))

----------------------------------------------------------------------------
(* One call of create_murmur3_hashes or create_xxhash64_hashes, column by  *)
(* column.                                                                 *)

\* a caller holding a batch of n rows (no column, one column of any kind, or
\* several core columns) and a buffer of n accumulators, or (against the
\* precondition) of one more or one fewer
Init ==
    /\ target_endian = "little"
    /\ h \in {"murmur3", "xxhash64"}
    /\ \E n \in 0..MaxRows :
         \/ /\ \/ arrays = <<>>
               \/ \E i \in 1..Len(Kinds), nulls \in {"none", "some"} :
                    arrays = <<Column(Kinds[i], nulls, n)>>
               \/ \E m \in 2..MaxCols : \E q \in SeqsOf(1..Len(CoreKinds), m) :
                    arrays = CoreBatch(q, n)
            /\ \E seeding \in {"42", "rows"} : hashes_buffer = Accumulators(h, seeding, n)
         \/ /\ \E i \in 1..Len(Kinds) : arrays = <<Column(Kinds[i], "some", n)>>
            /\ \E m \in {n - 1, n + 1} :
                 m >= 0 /\ hashes_buffer = Accumulators(h, "42", m)
    /\ col = 0
    /\ result = "idle"
    /\ entry = <<>>
    /\ errrow = 0
    /\ args = <<>>
    /\ ret = "none"

\* a loop that goes on to the next column whatever hash_array returned
create_hashes_step_without_question_mark(c, r) ==
    [buf |-> r.buf, status |-> "ok", row |-> r.row, col |-> c + 1]

\* one turn of `for col in arrays { hash_array(col, hashes_buffer, h)?; }`: r is
\* what hash_array returned
create_hashes_step(c, r) ==
    [buf |-> r.buf, status |-> r.status, row |-> r.row,
     col |-> IF r.status = "ok" THEN c + 1 ELSE c]

create_hashes_turn(arrays_, c, hashes_buffer_, hf) ==
    create_hashes_step(c, hash_array(arrays_[c], hashes_buffer_, hf))

CallCreateMurmur3Hashes ==
    /\ result = "idle" /\ h = "murmur3"
    /\ result' = "running" /\ col' = 1
    /\ UNCHANGED <<target_endian, arrays, hashes_buffer, h, entry, errrow, args, ret>>

CallCreateXxhash64Hashes ==
    /\ result = "idle" /\ h = "xxhash64"
    /\ result' = "running" /\ col' = 1
    /\ UNCHANGED <<target_endian, arrays, hashes_buffer, h, entry, errrow, args, ret>>

CreateHashesTurn(r) ==
    /\ hashes_buffer' = r.buf
    /\ col' = r.col
    /\ errrow' = r.row
    /\ result' = IF r.status = "ok" THEN "running" ELSE r.status

CreateHashesLoop ==
    /\ result = "running" /\ col <= Len(arrays)
    /\ CreateHashesTurn(create_hashes_turn(arrays, col, hashes_buffer, h))
    /\ entry' = Append(entry, hashes_buffer)
    /\ UNCHANGED <<target_endian, arrays, h, args, ret>>

\* a return that hands back zeroed accumulators
CreateHashesReturnZeroed ==
    /\ result = "running" /\ col > Len(arrays)
    /\ result' = "ok"
    /\ hashes_buffer' = Zeros(h, Len(hashes_buffer))
    /\ UNCHANGED <<target_endian, arrays, h, col, entry, errrow, args, ret>>

CreateHashesReturn ==
    /\ result = "running" /\ col > Len(arrays)
    /\ result' = "ok"
    /\ UNCHANGED <<target_endian, arrays, hashes_buffer, h, col, entry, errrow, args, ret>>

Next ==
    \/ CallCreateMurmur3Hashes
    \/ CallCreateXxhash64Hashes
    \/ CreateHashesLoop
    \/ CreateHashesReturn

Spec == Init /\ [][Next]_vars

----------------------------------------------------------------------------
(* What a call of create_hashes is required to do, stated over the columns *)
(* it has entered: entry[k] is the buffer as column k found it.            *)

\* the buffer as column k left it
After(k) == IF k < Len(entry) THEN entry[k + 1] ELSE hashes_buffer

\* column k was hashed to its end and returned Ok
Processed(k) == k <= Len(entry) /\ k < col

\* the call has returned, or has unwound with a panic
Finished == result \in {"ok", "err", "panic"}

\* the precondition the callers are asked to keep for column k
SameLength(k) == arrays[k].len = Len(hashes_buffer)

IsDictionary(array) == array.data_type.id = "Dictionary"

SupportedKey(array) == array.data_type.key \in {"Int8", "Int16", "Int32", "Int64"}

\* key i of a dictionary column is an index into its values
KeyInRange(array, i) ==
    array.values[i] >= 0 /\ array.values[i] < array.children[1].len

\* row i of the column holds no value: it is null, or it is a dictionary key
\* that refers to a null value
NullRow(array, i) ==
    \/ ~array.valid[i]
    \/ IsDictionary(array) /\ KeyInRange(array, i)
        /\ ~array.children[1].valid[array.values[i] + 1]

\* the plain column a dictionary column stands for: row i holds
\* dict_values[key[i]], null if the key or the value is null
RECURSIVE DereferencedValid(_, _)
DereferencedValid(array, n) ==
    IF n = 0 THEN <<>>
    ELSE Append(DereferencedValid(array, n - 1), ~NullRow(array, n))

RECURSIVE DereferencedValues(_, _)
DereferencedValues(array, n) ==
    IF n = 0 THEN <<>>
    ELSE Append(DereferencedValues(array, n - 1),
                IF array.valid[n] /\ KeyInRange(array, n)
                THEN array.children[1].values[array.values[n] + 1]
                ELSE array.children[1].values[1])

Dereference(array) ==
    Array(array.children[1].data_type, DereferencedValid(array, array.len),
          DereferencedValues(array, array.len), <<>>)

\* C1 (dictionary equivalence): a dictionary column with keys of a supported
\* width leaves every accumulator as the plain column of its dereferenced
\* values would, from the same starting accumulators.
DictionaryEquivalence ==
    \A k \in 1..Len(entry) :
        (Processed(k) /\ SameLength(k) /\ IsDictionary(arrays[k]) /\ SupportedKey(arrays[k]))
            => After(k) = hash_array(Dereference(arrays[k]), entry[k], h).buf

\* a null element, key, value or field j of a nested array adds nothing to the
\* accumulator of the row that encloses it
NullElementNeutral(a, j, acc) == ~a.valid[j] => hash_one(a, j, acc, h).hash = acc

NestedNullsNeutral(array, i, acc) ==
    CASE array.data_type.id = "List" ->
            \A j \in 1..array.values[i].len : NullElementNeutral(array.values[i], j, acc)
      [] array.data_type.id = "Map" ->
            \A j \in 1..array.values[i].len :
                /\ NullElementNeutral(array.values[i].children[1], j, acc)
                /\ NullElementNeutral(array.values[i].children[2], j, acc)
      [] array.data_type.id = "Struct" ->
            \A c \in 1..Len(array.children) : NullElementNeutral(array.children[c], i, acc)
      [] OTHER -> TRUE

\* C2 (null-neutrality): a row whose value is null keeps the accumulator it had
\* before the column was processed, for every column type; and so does a null
\* element of a list, a null key or value of a map, a null field of a struct.
NullNeutrality ==
    \A k \in 1..Len(entry) :
        (Processed(k) /\ SameLength(k)) =>
            \A i \in 1..arrays[k].len :
                /\ NullRow(arrays[k], i) => After(k)[i] = entry[k][i]
                /\ arrays[k].valid[i] => NestedNullsNeutral(arrays[k], i, entry[k][i])

\* the same, for batches without a dictionary column
NullNeutralityOfPlainColumns ==
    (\A j \in 1..Len(arrays) : ~IsDictionary(arrays[j])) => NullNeutrality

\* the bytes a non-null value of a plain column is encoded to
Encoding(column, i) ==
    CASE column.data_type.id = "Boolean" -> bool_to_le_bytes(column.values[i])
      [] column.data_type.id \in {"Binary", "LargeBinary", "Utf8", "LargeUtf8"} ->
            column.values[i]
      [] column.data_type.id = "Decimal128" -> to_le_bytes("i128", column.values[i])
      [] hash_array_ty(column.data_type) # "" ->
            to_le_bytes(hash_array_ty(column.data_type), column.values[i])

\* acc := h(encoding(column[i]), acc), a null value skipped; the elements of a
\* nested value are folded in one after another
RECURSIVE RowFold(_, _, _)
RowFold(column, i, acc) ==
    IF NullRow(column, i) THEN acc
    ELSE IF IsDictionary(column) THEN RowFold(Dereference(column), i, acc)
    ELSE IF column.data_type.id \in {"Null", "List", "Map", "Struct"}
         THEN hash_one(column, i, acc, h).hash
    ELSE Call(h, Encoding(column, i), acc)

\* the left fold over columns 1..k of a row
RECURSIVE ColumnsFold(_, _, _)
ColumnsFold(k, i, acc) ==
    IF k = 0 THEN acc ELSE RowFold(arrays[k], i, ColumnsFold(k - 1, i, acc))

\* C3 (sequential seeding): after columns 1..k every accumulator is the left
\* fold, over those columns in caller order, of acc := h(encoding(value), acc)
\* from the accumulator the caller supplied.
SequentialSeeding ==
    \A k \in 1..Len(entry) :
        (Processed(k) /\ \A j \in 1..k : SameLength(j)) =>
            \A i \in 1..Len(hashes_buffer) : After(k)[i] = ColumnsFold(k, i, entry[1][i])

\* the same, for batches without a dictionary column
SequentialSeedingOfPlainColumns ==
    (\A j \in 1..Len(arrays) : ~IsDictionary(arrays[j])) => SequentialSeeding

\* the same as C1, for callers that hand in zeroed accumulators
DictionaryEquivalenceFromZero ==
    (\A i \in 1..Len(hashes_buffer) : Len(entry) >= 1 => entry[1][i] = Zero(h))
        => DictionaryEquivalence

\* C6 (length-mismatch fail-fast): a call whose buffer is shorter or longer
\* than some column does not complete successfully.
LengthMismatchFailsFast ==
    result = "ok" => \A k \in 1..Len(arrays) : SameLength(k)

\* the logical types that have an encoding rule
HasEncodingRule(dt) ==
    \/ dt.id \in {"Null", "Boolean", "Int8", "Int16", "Int32", "Int64", "Float32",
                  "Float64", "Timestamp", "Date32", "Date64", "Binary", "LargeBinary",
                  "Utf8", "LargeUtf8", "Decimal128", "List", "Map", "Struct"}
    \/ dt.id = "Dictionary" /\ dt.key \in {"Int8", "Int16", "Int32", "Int64"}

\* the columns before k have an encoding rule and valid dictionary keys
CleanBefore(k) ==
    \A j \in 1..(k - 1) :
        /\ HasEncodingRule(arrays[j].data_type)
        /\ IsDictionary(arrays[j]) =>
            /\ HasEncodingRule(arrays[j].children[1].data_type)
            /\ \A i \in 1..arrays[j].len : arrays[j].valid[i] => KeyInRange(arrays[j], i)

\* C7 (unsupported type is always an error): a call that meets a column whose
\* type has no encoding rule returns an error, whatever the column holds: also
\* when all its rows are null and when it has no rows.
UnsupportedTypeIsError ==
    \A k \in 1..Len(arrays) :
        (Finished /\ (\A j \in 1..Len(arrays) : SameLength(j)) /\ CleanBefore(k)
            /\ ~HasEncodingRule(arrays[k].data_type))
            => result = "err" /\ col = k

\* some non-null key of the dictionary column is no index into its values
InvalidKey(array) ==
    \E i \in 1..array.len : array.valid[i] /\ ~KeyInRange(array, i)

\* C8 (invalid dictionary key is an error value): a call that meets a
\* dictionary column with a non-null key that is negative or not below the
\* number of dictionary values returns Err: it neither panics nor returns Ok.
InvalidDictionaryKeyIsErr ==
    \A k \in 1..Len(arrays) :
        (Finished /\ (\A j \in 1..Len(arrays) : SameLength(j)) /\ CleanBefore(k)
            /\ IsDictionary(arrays[k]) /\ SupportedKey(arrays[k])
            /\ HasEncodingRule(arrays[k].children[1].data_type) /\ InvalidKey(arrays[k]))
            => result = "err" /\ col = k

\* C9 (abort on error): when column k raises an error the call returns it at
\* once: k is the last column entered, nothing more can run, the buffer is as
\* columns 1..k-1 left it wherever column k had not yet written, and what those
\* columns did is what they do in a call that succeeds.
AbortOnError ==
    \A k \in 1..Len(entry) :
        hash_array(arrays[k], entry[k], h).status = "err" =>
            /\ result = "err" /\ col = k /\ Len(entry) = k
            /\ ~ENABLED Next
            /\ \A i \in 1..Len(hashes_buffer) : i > errrow => hashes_buffer[i] = entry[k][i]
            /\ entry[k] = create_hashes(SubSeq(arrays, 1, k - 1), entry[1], h).buf

\* a call that a second column aborted after the first had updated the buffer
AbortedAfterUpdates ==
    /\ result = "err" /\ col = 2
    /\ entry[2] # entry[1]
    /\ hashes_buffer = entry[2]

----------------------------------------------------------------------------
(* spark_compatible_murmur3_hash_long against the byte-buffer path.        *)

I32_MIN == -2147483647 - 1
I32_MAX == -(I32_MIN + 1)

\* the limbs the sampled 64-bit integers are built from, and the seeds
LongLimbs == <<0, 1, 32768, 65535>>
Seeds == <<0, 42, -1, I32_MIN, I32_MAX>>

InitLong ==
    /\ target_endian = "little"
    /\ arrays = <<>> /\ hashes_buffer = <<>> /\ h = "murmur3"
    /\ col = 0 /\ result = "idle" /\ entry = <<>> /\ errrow = 0
    /\ \E q0 \in 1..Len(LongLimbs), q1 \in 1..Len(LongLimbs),
          q2 \in 1..Len(LongLimbs), q3 \in 1..Len(LongLimbs), k \in 1..Len(Seeds) :
         args = [value |-> <<LongLimbs[q0], LongLimbs[q1], LongLimbs[q2], LongLimbs[q3]>>,
                 seed |-> Seeds[k]]
    /\ ret = 0

CallMurmur3HashLong ==
    /\ result = "idle"
    /\ ret' = spark_compatible_murmur3_hash_long(args.value, args.seed)
    /\ result' = "ok"
    /\ UNCHANGED <<target_endian, arrays, hashes_buffer, h, col, entry, errrow, args>>

NextLong == CallMurmur3HashLong

SpecLong == InitLong /\ [][NextLong]_vars

\* i64::to_le_bytes
i64_to_le_bytes(value) == WToLeBytes(value)

\* C4: for every 64-bit integer and every 32-bit seed,
\* spark_compatible_murmur3_hash_long returns what spark_compatible_murmur3_hash
\* returns on the 8 little-endian bytes of the integer with the same seed.
HashLongIsHashOfLeBytes ==
    result = "ok" =>
        ret = spark_compatible_murmur3_hash(i64_to_le_bytes(args.value), args.seed)

\* a long whose two words differ was hashed from a negative seed
HashedLongWithDistinctWords ==
    /\ result = "ok"
    /\ args.value = <<65535, 32768, 1, 0>>
    /\ args.seed = I32_MIN
    /\ ret # 0

----------------------------------------------------------------------------
(* pmod, spark_hash.rs:562-567.  `%` panics on a zero divisor and on       *)
(* i32::MIN % -1.                                                          *)

\* Rust's `a % b` on i32 (the remainder has the sign of a), b # 0
rem(a, b) ==
    IF b = I32_MIN THEN (IF a = I32_MIN THEN 0 ELSE a)
    ELSE IF a < 0 /\ a % (IF b < 0 THEN -b ELSE b) # 0
         THEN (a % (IF b < 0 THEN -b ELSE b)) - (IF b < 0 THEN -b ELSE b)
    ELSE a % (IF b < 0 THEN -b ELSE b)

rem_panics(a, b) == b = 0 \/ (a = I32_MIN /\ b = -1)

\* `result as usize`
i32_as_usize(x) == IntToW(x, 4)

\* the body of pmod once `n as i32` is taken
pmod_i32(hash, n) ==
    IF rem_panics(hash, n) THEN [status |-> "panic", value |-> WZero(4)]
    ELSE IF rem(hash, n) >= 0 THEN [status |-> "ok", value |-> i32_as_usize(rem(hash, n))]
    ELSE IF rem_panics(wrapping_add[rem(hash, n), n], n)
         THEN [status |-> "panic", value |-> WZero(4)]
    ELSE [status |-> "ok",
          value |-> i32_as_usize(rem(wrapping_add[rem(hash, n), n], n))]

pmod(hash, n) == pmod_i32(hash, WToI32(n))

\* the hashes of test_pmod and what it expects of them for n = 200
PmodTestHashes ==
    <<U32AsI32(\h99f0, \h149d), U32AsI32(\h9c67, \hb85d), U32AsI32(\hc800, \h8529),
      U32AsI32(\ha05b, \h5d7b), U32AsI32(\hcd1e, \h64fb)>>
PmodTestExpected == <<69, 5, 193, 171, 115>>

PmodHashes == <<0, 1, -1, 199, -200, I32_MIN, I32_MAX>> \o PmodTestHashes

\* partition counts n > 0 of type usize
PartitionCounts ==
    <<IntToW(1, 4), IntToW(2, 4), IntToW(3, 4), IntToW(7, 4), IntToW(200, 4),
      IntToW(I32_MAX, 4), <<0, 32768, 0, 0>>, <<65535, 65535, 0, 0>>, <<0, 0, 1, 0>>,
      <<200, 0, 1, 0>>, <<0, 0, 0, 32768>>, <<65535, 65535, 65535, 65535>>>>

InitPmod ==
    /\ target_endian = "little"
    /\ arrays = <<>> /\ hashes_buffer = <<>> /\ h = "murmur3"
    /\ col = 0 /\ result = "idle" /\ entry = <<>> /\ errrow = 0
    /\ \E i \in 1..Len(PmodHashes), j \in 1..Len(PartitionCounts) :
         args = [hash |-> PmodHashes[i], n |-> PartitionCounts[j]]
    /\ ret = WZero(4)

CallPmod ==
    /\ result = "idle"
    /\ ret' = pmod(args.hash, args.n).value
    /\ result' = pmod(args.hash, args.n).status
    /\ UNCHANGED <<target_endian, arrays, hashes_buffer, h, col, entry, errrow, args>>

NextPmod == CallPmod

SpecPmod == InitPmod /\ [][NextPmod]_vars

\* n is at most i32::MAX
FitsI32(n) == n[3] = 0 /\ n[4] = 0 /\ n[2] < 32768

\* r is the residue of hash modulo n in 0..n-1
IsResidue(hash, n, r) ==
    IF FitsI32(n)
    THEN FitsI32(r) /\ WToI32(r) = hash % WToI32(n)
    ELSE r = IF hash >= 0 THEN IntToW(hash, 4) ELSE WAdd[n, IntToW(hash, 4)]

\* C5: for every i32 hash and every partition count n > 0 of type usize, pmod
\* returns, without failing, the r with 0 <= r < n that is congruent to the
\* hash modulo n; with n = 200 the hashes of test_pmod give 69, 5, 193, 171, 115.
PmodIsResidue ==
    result # "idle" =>
        /\ result = "ok"
        /\ WLess(ret, args.n)
        /\ IsResidue(args.hash, args.n, ret)
        /\ \A i \in 1..Len(PmodTestHashes) :
            (args.hash = PmodTestHashes[i] /\ args.n = IntToW(200, 4))
                => ret = IntToW(PmodTestExpected[i], 4)

\* the same, for the partition counts an i32 holds
PmodIsResidueUpToI32Max == FitsI32(args.n) => PmodIsResidue

----------------------------------------------------------------------------
(* spark_xxhash64, spark_xxhash64.rs:22-50.  A ColumnarValue is an Array   *)
(* or a Scalar; a scalar is held as the one-row array of its value.        *)

ArrayValue(array) == [kind |-> "Array", array |-> array]
ScalarValue(array) == [kind |-> "Scalar", array |-> array]

\* ScalarValue::to_array_of_size: the value in each of `size` rows
RECURSIVE Repeat(_, _)
Repeat(x, size) == IF size = 0 THEN <<>> ELSE <<x>> \o Repeat(x, size - 1)

to_array_of_size(scalar, size) ==
    Array(scalar.data_type, Repeat(scalar.valid[1], size),
          Repeat(scalar.values[1], size), <<>>)

\* args.iter().map(|arg| array.len() or 1).max().unwrap_or(0)
RECURSIVE max_len(_, _)
max_len(args_, k) ==
    IF k = 0 THEN 0
    ELSE Max(IF args_[k].kind = "Array" THEN args_[k].array.len ELSE 1,
             max_len(args_, k - 1))

\* the arrays handed to create_xxhash64_hashes
RECURSIVE into_arrays(_, _, _)
into_arrays(args_, k, len) ==
    IF k = 0 THEN <<>>
    ELSE Append(into_arrays(args_, k - 1, len),
                IF args_[k].kind = "Array" THEN args_[k].array
                ELSE to_array_of_size(args_[k].array, len))

spark_xxhash64_default_seed == IntToW(42, 4)

\* Ok(Int64Array) of the buffer, or the error (or panic) of create_xxhash64_hashes
spark_xxhash64_result(r) ==
    [status |-> r.status, values |-> IF r.status = "ok" THEN r.buf ELSE <<>>]

spark_xxhash64(args_) ==
    spark_xxhash64_result(
        create_xxhash64_hashes(
            into_arrays(args_, Len(args_), max_len(args_, Len(args_))),
            Repeat(spark_xxhash64_default_seed, max_len(args_, Len(args_)))))

\* the arguments a call of the function is given for a batch of n rows
ArgKinds == <<"Int64", "Utf8", "Int32", "Dictionary", "UInt32",
              "ScalarInt64", "ScalarUtf8", "ScalarNull">>

Arg(kind, nulls, n) ==
    CASE kind = "ScalarInt64" -> ScalarValue(Column("Int64", "none", 1))
      [] kind = "ScalarUtf8" -> ScalarValue(Column("Utf8", "none", 1))
      [] kind = "ScalarNull" -> ScalarValue(Column("Int64", "all", 1))
      [] OTHER -> ArrayValue(Column(kind, nulls, n))

RECURSIVE Args(_, _)
Args(q, n) ==
    IF Len(q) = 0 THEN <<>>
    ELSE Append(Args(SubSeq(q, 1, Len(q) - 1), n),
                Arg(ArgKinds[q[Len(q)]], IF Len(q) % 2 = 1 THEN "none" ELSE "some", n))

\* the argument of test_xxhash64_int64
TestInt64 ==
    Array(DataType("Int64"), <<TRUE, TRUE, TRUE, TRUE, TRUE>>,
          <<IntToW(1, 4), IntToW(0, 4), IntToW(-1, 4), I64_MAX, I64_MIN>>, <<>>)

InitXxhash64 ==
    /\ target_endian = "little"
    /\ arrays = <<>> /\ hashes_buffer = <<>> /\ h = "xxhash64"
    /\ col = 0 /\ result = "idle" /\ entry = <<>> /\ errrow = 0
    /\ \/ \E n \in 0..MaxRows, m \in 0..MaxCols :
            \E q \in SeqsOf(1..Len(ArgKinds), m) : args = Args(q, n)
       \/ args = <<ArrayValue(TestInt64)>>
    /\ ret = <<>>

CallSparkXxhash64 ==
    /\ result = "idle"
    /\ ret' = spark_xxhash64(args).values
    /\ result' = spark_xxhash64(args).status
    /\ UNCHANGED <<target_endian, arrays, hashes_buffer, h, col, entry, errrow, args>>

NextXxhash64 == CallSparkXxhash64

SpecXxhash64 == InitXxhash64 /\ [][NextXxhash64]_vars

\* the row count of a call: the longest array argument, 1 when every argument
\* is a scalar, 0 when there is no argument
RECURSIVE LongestArray(_)
LongestArray(k) ==
    IF k = 0 THEN 0
    ELSE Max(IF args[k].kind = "Array" THEN args[k].array.len ELSE 0, LongestArray(k - 1))

RowCount ==
    IF Len(args) = 0 THEN 0
    ELSE IF \A k \in 1..Len(args) : args[k].kind = "Scalar" THEN 1
    ELSE LongestArray(Len(args))

\* the xxHash64 fold of row i over arguments 1..k, a scalar standing in every row
RECURSIVE ArgsFold(_, _, _)
ArgsFold(k, i, acc) ==
    IF k = 0 THEN acc
    ELSE RowFold(args[k].array, IF args[k].kind = "Scalar" THEN 1 ELSE i,
                 ArgsFold(k - 1, i, acc))

\* what test_xxhash64_int64 expects
TestInt64Expected ==
    <<<<53810, 37720, 4053, 40661>>, <<29804, 55829, 18411, 46875>>,
      <<28626, 49076, 57397, 13706>>, <<45830, 44670, 50710, 54001>>,
      <<49652, 50324, 32793, 34912>>>>

\* C10: spark_xxhash64 returns one hash per row, the row count being the
\* longest array argument (1 when all arguments are scalars, 0 without
\* arguments); the hash of a row is the xxHash64 fold of that row's argument
\* values in argument order from seed 42; Int64 [1, 0, -1, i64::MAX, i64::MIN]
\* gives the hashes test_xxhash64_int64 expects.
Xxhash64FoldsEachRow ==
    (result # "idle" /\ \A k \in 1..Len(args) : HasEncodingRule(args[k].array.data_type))
        => /\ result = "ok"
           /\ Len(ret) = RowCount
           /\ \A i \in 1..RowCount :
                ret[i] = ArgsFold(Len(args), i, spark_xxhash64_default_seed)
           /\ (Len(args) = 1 /\ args[1].array.len = 5) => ret = TestInt64Expected

\* the same, for calls without a dictionary argument on batches that have rows
Xxhash64FoldsEachRowOfPlainArguments ==
    (/\ \A k \in 1..Len(args) : ~IsDictionary(args[k].array)
     /\ \A k \in 1..Len(args) : args[k].kind = "Array" => args[k].array.len > 0)
        => Xxhash64FoldsEachRow

----------------------------------------------------------------------------
(* Int8 and Int16 columns, spark_hash.rs:373-378: one row, one accumulator. *)

Int8Values == <<1, 0, -1, 127, -128, 100, -2>>
Int16Values == <<1, 0, -1, 127, -128, 128, 255, 256, -129, 32767, -32768>>
NarrowSeeds == <<0, 42, -1>>

\* the accumulator type of the primitive: i32 for Murmur3, i64 for xxHash64
Accumulator(hf, x) == IF hf = "murmur3" THEN x ELSE IntToW(x, 4)

InitNarrow ==
    /\ target_endian = "little"
    /\ arrays = <<>> /\ hashes_buffer = <<>> /\ h \in {"murmur3", "xxhash64"}
    /\ col = 0 /\ result = "idle" /\ entry = <<>> /\ errrow = 0
    /\ \E k \in 1..Len(NarrowSeeds) :
         \/ \E i \in 1..Len(Int8Values) :
              args = [kind |-> "Int8", value |-> Int8Values[i], seed |-> NarrowSeeds[k]]
         \/ \E i \in 1..Len(Int16Values) :
              args = [kind |-> "Int16", value |-> Int16Values[i], seed |-> NarrowSeeds[k]]
    /\ ret = <<>>

\* create_murmur3_hashes / create_xxhash64_hashes on the one-row column
CallCreateHashesNarrow ==
    /\ result = "idle"
    /\ ret' = create_hashes(<<Array(DataType(args.kind), <<TRUE>>, <<args.value>>, <<>>)>>,
                            <<Accumulator(h, args.seed)>>, h).buf
    /\ result' = create_hashes(<<Array(DataType(args.kind), <<TRUE>>, <<args.value>>, <<>>)>>,
                               <<Accumulator(h, args.seed)>>, h).status
    /\ UNCHANGED <<target_endian, arrays, hashes_buffer, h, col, entry, errrow, args>>

NextNarrow == CallCreateHashesNarrow

SpecNarrow == InitNarrow /\ [][NextNarrow]_vars

\* the 4 little-endian bytes of v sign-extended to 32 bits
SignExtendedLeBytes(v) ==
    <<v % 256, (v \div 256) % 256, IF v < 0 THEN 255 ELSE 0, IF v < 0 THEN 255 ELSE 0>>

\* what test_i8 expects of Int8 [1, 0, -1, 127, -128] with Murmur3 seed 42
TestI8Expected ==
    <<U32AsI32(\hdea5, \h78e3), U32AsI32(\h379f, \hae8f), U32AsI32(\ha059, \h0e3d),
      U32AsI32(\h43b4, \hd8ed), U32AsI32(\h422a, \h1365)>>

\* C11 (integer-width promotion): a non-null Int8 or Int16 value v leaves the
\* accumulator that an Int32 column value v does, the hash of the 4
\* little-endian bytes of v sign-extended to 32 bits; Int8 [1, 0, -1, 127,
\* -128] with Murmur3 seed 42 gives the hashes of test_i8.
NarrowIntegersArePromoted ==
    result # "idle" =>
        /\ result = "ok"
        /\ ret = <<Call(h, SignExtendedLeBytes(args.value), Accumulator(h, args.seed))>>
        /\ ret = create_hashes(<<Int32Of(<<TRUE>>, <<args.value>>)>>,
                               <<Accumulator(h, args.seed)>>, h).buf
        /\ \A i \in 1..5 :
             (h = "murmur3" /\ args.kind = "Int8" /\ args.seed = 42
              /\ args.value = Int8Values[i]) => ret = <<TestI8Expected[i]>>

\* the Int8 value -128 was hashed by Murmur3 from seed 42
HashedNegativeInt8 ==
    /\ result = "ok" /\ h = "murmur3"
    /\ args = [kind |-> "Int8", value |-> -128, seed |-> 42]
    /\ ret = <<TestI8Expected[5]>>

----------------------------------------------------------------------------
(* spark_compatible_murmur3_hash on byte buffers, spark_hash.rs:30-49,     *)
(* called on a little-endian target (SpecEndian has both targets).         *)

MaxLen == 5     \* bytes of an enumerated buffer

BufferBytes == <<97, 128, 255>>

\* the strings of test_murmur3 and test_xxhash64
TestStrings ==
    <<<<>>, <<97>>, <<97, 98>>, <<97, 98, 99>>, <<97, 98, 99, 100>>,
      <<97, 98, 99, 100, 101>>,
      <<97, 98, 99, 100, 101, 102, 103, 104, 105, 106, 107, 108, 109, 110, 111, 112,
        113, 114, 115, 116, 117, 118, 119, 120, 121, 122>>>>

InitMurmur3 ==
    /\ target_endian = "little"
    /\ arrays = <<>> /\ hashes_buffer = <<>> /\ h = "murmur3"
    /\ col = 0 /\ result = "idle" /\ entry = <<>> /\ errrow = 0
    /\ \E k \in 1..Len(Seeds) :
         \/ \E n \in 0..MaxLen : \E data \in SeqsOf(1..Len(BufferBytes), n) :
              args = [data |-> [i \in 1..n |-> BufferBytes[data[i]]], seed |-> Seeds[k]]
         \/ \E t \in 1..Len(TestStrings) : args = [data |-> TestStrings[t], seed |-> Seeds[k]]
    /\ ret = 0

CallMurmur3Hash ==
    /\ result = "idle"
    /\ ret' = spark_compatible_murmur3_hash(args.data, args.seed)
    /\ result' = "ok"
    /\ UNCHANGED <<target_endian, arrays, hashes_buffer, h, col, entry, errrow, args>>

NextMurmur3 == CallMurmur3Hash

SpecMurmur3 == InitMurmur3 /\ [][NextMurmur3]_vars

\* the reference engine's variant: the little-endian word at 0-based offset i
ReferenceWord(data, i) ==
    U32AsI32(data[i + 4] * 256 + data[i + 3], data[i + 2] * 256 + data[i + 1])

\* a byte sign-extended from 8 to 32 bits
ReferenceByte(b) == IF b > 127 THEN b - 256 ELSE b

\* the full words, then the trailing bytes one by one, from offset i
RECURSIVE ReferenceFold(_, _, _)
ReferenceFold(data, i, h1) ==
    IF i >= Len(data) THEN h1
    ELSE IF i + 4 <= Len(data)
         THEN ReferenceFold(data, i + 4, mix_h1(h1, mix_k1(ReferenceWord(data, i))))
    ELSE ReferenceFold(data, i + 1, mix_h1(h1, mix_k1(ReferenceByte(data[i + 1]))))

ReferenceMurmur3(data, seed) == fmix(ReferenceFold(data, 0, seed), Len(data))

\* what test_murmur3 expects of "", "a", "ab", "abc", "abcd", "abcde" with seed 42
TestMurmur3Expected ==
    <<142593372, 1485273170, -97053317, 1322437556, -396302900, 814637928>>

\* C12: for every byte buffer and every 32-bit seed,
\* spark_compatible_murmur3_hash is the reference engine's Murmur3: the full
\* 4-byte little-endian words folded with mix_k1 and mix_h1, then each trailing
\* byte sign-extended to 32 bits and folded the same way, then fmix with the
\* byte length, modulo 2^32; seed 42 on "", "a", "ab", "abc", "abcd", "abcde"
\* gives the hashes of test_murmur3.
Murmur3IsReferenceVariant ==
    result = "ok" =>
        /\ ret = ReferenceMurmur3(args.data, args.seed)
        /\ ret \in I32_MIN..I32_MAX
        /\ \A t \in 1..Len(TestMurmur3Expected) :
             (args.seed = 42 /\ args.data = TestStrings[t]) => ret = TestMurmur3Expected[t]

\* a buffer of one full word and a trailing byte above 127 was hashed
HashedWordAndNegativeTail ==
    /\ result = "ok"
    /\ args.data = <<97, 128, 255, 97, 255>>
    /\ args.seed = -1
    /\ ret = ReferenceMurmur3(args.data, args.seed)

----------------------------------------------------------------------------
(* spark_compatible_xxhash64_hash on byte buffers, spark_hash.rs:113-228,  *)
(* called on a little-endian target.                                       *)

MaxBytes == 78      \* bytes of the longest generated buffer

\* the first n bytes of a byte pattern
Pattern(p, n) == [i \in 1..n |-> (i * 37 + p * 101 + (i \div 8) * p) % 256]

LongSeeds == <<IntToW(42, 4), WZero(4), IntToW(-1, 4), I64_MIN>>

InitXxh ==
    /\ target_endian = "little"
    /\ arrays = <<>> /\ hashes_buffer = <<>> /\ h = "xxhash64"
    /\ col = 0 /\ result = "idle" /\ entry = <<>> /\ errrow = 0
    /\ \E k \in 1..Len(LongSeeds) :
         \/ \E n \in 0..MaxBytes, p \in 0..2 :
              args = [data |-> Pattern(p, n), seed |-> LongSeeds[k]]
         \/ \E t \in 1..Len(TestStrings) :
              args = [data |-> TestStrings[t], seed |-> LongSeeds[k]]
    /\ ret = WZero(4)

CallXxhash64Hash ==
    /\ result = "idle"
    /\ ret' = spark_compatible_xxhash64_hash(args.data, args.seed)
    /\ result' = "ok"
    /\ UNCHANGED <<target_endian, arrays, hashes_buffer, h, col, entry, errrow, args>>

NextXxh == CallXxhash64Hash

SpecXxh == InitXxh /\ [][NextXxh]_vars

\* the standard XXH64.  The little-endian word of 2 * limbs bytes at offset i,
\* widened to 64 bits
RECURSIVE XXH_readLE(_, _, _)
XXH_readLE(data, i, limbs) ==
    IF limbs = 0 THEN <<>>
    ELSE <<data[i + 1] + 256 * data[i + 2]>> \o XXH_readLE(data, i + 2, limbs - 1)

XXH_readLE64(data, i) == XXH_readLE(data, i, 4)
XXH_readLE32(data, i) == XXH_readLE(data, i, 2) \o <<0, 0>>

XXH_rotl64(x, r) == WOr[WShl[x, r], WShr[x, 64 - r]]

XXH_xorshift64(x, n) == WXor[x, WShr[x, n]]

XXH64_round(acc, input) ==
    WMul[XXH_rotl64(WAdd[acc, WMul[input, PRIME64_2]], 31), PRIME64_1]

XXH64_mergeRound(acc, val) ==
    WAdd[WMul[WXor[acc, XXH64_round(WZero(4), val)], PRIME64_1], PRIME64_4]

XXH64_avalanche(h64) ==
    XXH_xorshift64(WMul[XXH_xorshift64(WMul[XXH_xorshift64(h64, 33), PRIME64_2], 29),
                        PRIME64_3],
                   32)

\* the 8-byte words, then one 4-byte word, then the bytes, then the avalanche
RECURSIVE XXH64_finalize(_, _, _)
XXH64_finalize(data, i, h64) ==
    IF Len(data) - i >= 8
    THEN XXH64_finalize(data, i + 8,
            WAdd[WMul[XXH_rotl64(WXor[h64, XXH64_round(WZero(4), XXH_readLE64(data, i))], 27),
                      PRIME64_1],
                 PRIME64_4])
    ELSE IF Len(data) - i >= 4
    THEN XXH64_finalize(data, i + 4,
            WAdd[WMul[XXH_rotl64(WXor[h64, WMul[XXH_readLE32(data, i), PRIME64_1]], 23),
                      PRIME64_2],
                 PRIME64_3])
    ELSE IF Len(data) - i >= 1
    THEN XXH64_finalize(data, i + 1,
            WMul[XXH_rotl64(WXor[h64, WMul[<<data[i + 1], 0, 0, 0>>, PRIME64_5]], 11),
                 PRIME64_1])
    ELSE XXH64_avalanche(h64)

XXH64_converge(v1, v2, v3, v4) ==
    XXH64_mergeRound(XXH64_mergeRound(XXH64_mergeRound(XXH64_mergeRound(
        WAdd[WAdd[WAdd[XXH_rotl64(v1, 1), XXH_rotl64(v2, 7)], XXH_rotl64(v3, 12)],
             XXH_rotl64(v4, 18)],
        v1), v2), v3), v4)

\* the 32-byte stripes over the four lanes
RECURSIVE XXH64_stripes(_, _, _, _, _, _)
XXH64_stripes(data, i, v1, v2, v3, v4) ==
    IF i + 32 <= Len(data)
    THEN XXH64_stripes(data, i + 32,
            XXH64_round(v1, XXH_readLE64(data, i)),
            XXH64_round(v2, XXH_readLE64(data, i + 8)),
            XXH64_round(v3, XXH_readLE64(data, i + 16)),
            XXH64_round(v4, XXH_readLE64(data, i + 24)))
    ELSE XXH64_finalize(data, i,
            WAdd[XXH64_converge(v1, v2, v3, v4), IntToW(Len(data), 4)])

XXH64(data, seed) ==
    IF Len(data) >= 32
    THEN XXH64_stripes(data, 0, WAdd[WAdd[seed, PRIME64_1], PRIME64_2],
                       WAdd[seed, PRIME64_2], seed, WSub[seed, PRIME64_1])
    ELSE XXH64_finalize(data, 0, WAdd[WAdd[seed, PRIME64_5], IntToW(Len(data), 4)])

\* what test_xxhash64 expects of its seven strings with seed 42
TestXxhash64Expected ==
    <<<<59140, 2423, 22571, 39089>>,
      <<45260, 44535, 65113, 35044>>,
      <<16355, 8346, 55411, 9629>>,
      <<28902, 28711, 55568, 5057>>,
      <<19967, 56374, 24245, 41339>>,
      <<62105, 19088, 12350, 62017>>,
      <<24532, 13201, 45750, 53933>>>>

\* C13: for every byte buffer and every 64-bit seed,
\* spark_compatible_xxhash64_hash is the standard 64-bit xxHash (four lanes and
\* their merge from 32 bytes on, seed + PRIME64_5 below, the length added, the
\* 8-byte, 4-byte and 1-byte tails in that order, the 33/29/32 avalanche),
\* modulo 2^64; seed 42 on the strings of test_xxhash64 gives its hashes.
Xxhash64IsStandard ==
    result = "ok" =>
        /\ ret = XXH64(args.data, args.seed)
        /\ Len(ret) = 4 /\ \A i \in 1..4 : ret[i] \in 0..(LIMB - 1)
        /\ \A t \in 1..Len(TestStrings) :
             (args.seed = IntToW(42, 4) /\ args.data = TestStrings[t])
                => ret = TestXxhash64Expected[t]

\* a buffer with two stripes and all three tails was hashed
HashedStripesAndTails ==
    /\ result = "ok"
    /\ Len(args.data) = 64 + 8 + 4 + 1
    /\ args.seed = I64_MIN
    /\ ret = XXH64(args.data, args.seed)

----------------------------------------------------------------------------
(* create_hashes without columns. *)

\* C14 (empty column list is the identity): a call of create_murmur3_hashes or
\* create_xxhash64_hashes with zero columns changes no accumulator at any
\* step, enters no column, and returns Ok.
EmptyColumnListIsIdentity ==
    /\ [](arrays = <<>> => (entry = <<>> /\ result \in {"idle", "running", "ok"}))
    /\ [][arrays = <<>> => hashes_buffer' = hashes_buffer]_vars

\* a call without columns returned Ok on two accumulators that differ
ReturnedFromEmptyColumnList ==
    /\ arrays = <<>> /\ result = "ok" /\ h = "murmur3"
    /\ hashes_buffer = <<0, 7>>

----------------------------------------------------------------------------
(* A value as a list element, a map key, a map value or a struct field,    *)
(* spark_hash.rs:431-435 and 464-560: one row, one accumulator.            *)

\* the types hash_array takes as a top-level column that have non-null values
ElementKinds ==
    <<"Boolean", "Int8", "Int16", "Int32", "Int64", "Float32", "Float64",
      "TimestampSecond", "TimestampSecondTz", "TimestampMillisecond",
      "TimestampMillisecondTz", "TimestampMicrosecond", "TimestampMicrosecondTz",
      "TimestampNanosecond", "TimestampNanosecondNoTz", "Date32", "Date64", "Binary",
      "LargeBinary", "Utf8", "LargeUtf8", "Decimal128", "Dictionary",
      "DictionaryInt64Key", "List", "Map", "Struct">>

\* the one-row array holding a non-null value of the kind
Element(kind) ==
    CASE kind = "TimestampSecondTz" -> Plain(Timestamp("Second", TRUE), LongInts, "none", 1)
      [] kind = "TimestampMillisecond" ->
            Plain(Timestamp("Millisecond", FALSE), LongInts, "none", 1)
      [] kind = "TimestampMicrosecondTz" ->
            Plain(Timestamp("Microsecond", TRUE), LongInts, "none", 1)
      [] kind = "TimestampNanosecondNoTz" ->
            Plain(Timestamp("Nanosecond", FALSE), LongInts, "none", 1)
      [] OTHER -> Column(kind, "none", 1)

Nestings == <<"List", "MapKey", "MapValue", "Struct">>

\* the one-row column that holds the element at the given place; the map entry
\* has a null Int32 value beside the key, or the Int32 key 0 before the value
Nested(nesting, element) ==
    CASE nesting = "List" -> Array(DataType("List"), <<TRUE>>, <<element>>, <<>>)
      [] nesting = "MapKey" ->
            Array(DataType("Map"), <<TRUE>>,
                  <<Array(DataType("Struct"), <<TRUE>>, <<>>,
                          <<element, Int32Of(<<FALSE>>, <<0>>)>>)>>, <<>>)
      [] nesting = "MapValue" ->
            Array(DataType("Map"), <<TRUE>>,
                  <<Array(DataType("Struct"), <<TRUE>>, <<>>,
                          <<Int32Of(<<TRUE>>, <<0>>), element>>)>>, <<>>)
      [] nesting = "Struct" -> Array(DataType("Struct"), <<TRUE>>, <<>>, <<element>>)

InitNested ==
    /\ target_endian = "little"
    /\ arrays = <<>> /\ hashes_buffer = <<>> /\ h \in {"murmur3", "xxhash64"}
    /\ col = 0 /\ result = "idle" /\ entry = <<>> /\ errrow = 0
    /\ \E e \in 1..Len(ElementKinds), n \in 1..Len(Nestings), k \in 1..Len(NarrowSeeds) :
         args = [element |-> ElementKinds[e], nesting |-> Nestings[n],
                 seed |-> NarrowSeeds[k]]
    /\ ret = <<>>

\* create_murmur3_hashes / create_xxhash64_hashes on the one-row nested column
CallCreateHashesNested ==
    /\ result = "idle"
    /\ ret' = create_hashes(<<Nested(args.nesting, Element(args.element))>>,
                            <<Accumulator(h, args.seed)>>, h).buf
    /\ result' = create_hashes(<<Nested(args.nesting, Element(args.element))>>,
                               <<Accumulator(h, args.seed)>>, h).status
    /\ UNCHANGED <<target_endian, arrays, hashes_buffer, h, col, entry, errrow, args>>

NextNested == CallCreateHashesNested

SpecNested == InitNested /\ [][NextNested]_vars

\* the same value in a top-level column (after the column of the map key 0,
\* when the value is a map value)
TopLevel(nesting, element) ==
    IF nesting = "MapValue" THEN <<Int32Of(<<TRUE>>, <<0>>), element>> ELSE <<element>>

\* C15 (nested values are hashed like top-level values): a non-null value of
\* any type that create_hashes takes as a top-level column, dictionaries and
\* timestamps of every resolution with or without a timezone included, is
\* hashed without error as a list element, map key, map value or struct
\* field, and leaves the accumulator it leaves as a top-level column.
NestedLikeTopLevel ==
    result # "idle" =>
        /\ create_hashes(TopLevel(args.nesting, Element(args.element)),
                         <<Accumulator(h, args.seed)>>, h).status = "ok"
        /\ result = "ok"
        /\ ret = create_hashes(TopLevel(args.nesting, Element(args.element)),
                               <<Accumulator(h, args.seed)>>, h).buf

\* the types hash_one has an arm for
HashOneTakes(dt) ==
    \/ hash_one_ty(dt) # ""
    \/ dt.id \in {"Null", "List", "Map", "Struct"}

\* the same, for the types hash_one has an arm for
NestedLikeTopLevelWhereHashOneTakes ==
    HashOneTakes(Element(args.element).data_type) => NestedLikeTopLevel

----------------------------------------------------------------------------
(* The order in which the children of a nested row are folded in. *)

\* acc := h(encoding(child j), acc), a null child skipped
ChildFold(a, j, acc) == IF ~a.valid[j] THEN acc ELSE Call(h, Encoding(a, j), acc)

\* elements 1..j of a list row, in element order
RECURSIVE ElementsFold(_, _, _)
ElementsFold(a, j, acc) ==
    IF j = 0 THEN acc ELSE ChildFold(a, j, ElementsFold(a, j - 1, acc))

\* entries 1..j of a map row, in entry order, the key of an entry before its value
RECURSIVE EntriesFold(_, _, _)
EntriesFold(kv, j, acc) ==
    IF j = 0 THEN acc
    ELSE ChildFold(kv.children[2], j,
                   ChildFold(kv.children[1], j, EntriesFold(kv, j - 1, acc)))

\* fields 1..c of row i of a struct, in declared order
RECURSIVE FieldsFold(_, _, _, _)
FieldsFold(columns, c, i, acc) ==
    IF c = 0 THEN acc ELSE ChildFold(columns[c], i, FieldsFold(columns, c - 1, i, acc))

NestedFold(column, i, acc) ==
    CASE column.data_type.id = "List" ->
            ElementsFold(column.values[i], column.values[i].len, acc)
      [] column.data_type.id = "Map" ->
            EntriesFold(column.values[i], column.values[i].len, acc)
      [] column.data_type.id = "Struct" ->
            FieldsFold(column.children, Len(column.children), i, acc)

\* C16 (nested fold order): after a list, map or struct column was processed,
\* the accumulator of each of its non-null rows is the fold, from the
\* accumulator the column found, of the row's elements in element order, of
\* its entries in entry order with each key before its value, or of its
\* fields in declared order, null children skipped.
NestedFoldOrder ==
    \A k \in 1..Len(entry) :
        (/\ Processed(k) /\ SameLength(k)
         /\ arrays[k].data_type.id \in {"List", "Map", "Struct"}) =>
            \A i \in 1..arrays[k].len :
                arrays[k].valid[i] => After(k)[i] = NestedFold(arrays[k], i, entry[k][i])

\* a map column whose first row has two entries was processed
HashedMapRowOfTwoEntries ==
    /\ result = "ok" /\ Len(arrays) = 1 /\ Len(hashes_buffer) >= 1
    /\ Len(entry) = 1 /\ Len(entry[1]) >= 1
    /\ arrays[1].data_type.id = "Map" /\ arrays[1].len >= 1 /\ arrays[1].valid[1]
    /\ arrays[1].values[1].len = 2
    /\ hashes_buffer[1] = NestedFold(arrays[1], 1, entry[1][1])
    /\ hashes_buffer[1] # entry[1][1]

----------------------------------------------------------------------------
(* The two hash primitives on a little-endian and on a big-endian target,  *)
(* spark_hash.rs:85-96 and 215-227.                                        *)

MaxWordBytes == 12      \* bytes of the longest generated buffer

\* a buffer whose bytes all read the same from either end of their bits
SymmetricBytes == <<255, 0, 129, 24, 102>>

InitEndian ==
    /\ target_endian \in {"little", "big"}
    /\ arrays = <<>> /\ hashes_buffer = <<>> /\ h \in {"murmur3", "xxhash64"}
    /\ col = 0 /\ result = "idle" /\ entry = <<>> /\ errrow = 0
    /\ \E k \in 1..Len(NarrowSeeds) :
         \/ \E n \in 0..MaxWordBytes, p \in 0..1 :
              args = [data |-> Pattern(p, n), seed |-> NarrowSeeds[k]]
         \/ \E t \in 1..Len(TestStrings) :
              args = [data |-> TestStrings[t], seed |-> NarrowSeeds[k]]
         \/ args = [data |-> SymmetricBytes, seed |-> NarrowSeeds[k]]
    /\ ret = <<>>

\* spark_compatible_murmur3_hash / spark_compatible_xxhash64_hash on the target
CallHashOnTarget ==
    /\ result = "idle"
    /\ ret' = <<Call(h, args.data, Accumulator(h, args.seed))>>
    /\ result' = "ok"
    /\ UNCHANGED <<target_endian, arrays, hashes_buffer, h, col, entry, errrow, args>>

NextEndian == CallHashOnTarget

SpecEndian == InitEndian /\ [][NextEndian]_vars

\* the hash with every word of the buffer taken as little-endian
LittleEndianHash(hf, data, seed) ==
    IF hf = "murmur3" THEN ReferenceMurmur3(data, seed)
    ELSE XXH64(data, IntToW(seed, 4))

\* C17 (host-endianness independence): the Murmur3 core and the xxHash64 core
\* take every 4-byte and 8-byte word of the buffer as little-endian, so the
\* hash of a buffer is the same on a big-endian as on a little-endian target.
HostEndiannessIndependent ==
    result = "ok" => ret = <<LittleEndianHash(h, args.data, args.seed)>>

\* the same, on a little-endian target
LittleEndianTargetReadsLittleEndian ==
    target_endian = "little" => HostEndiannessIndependent

\* the same, for buffers shorter than a 4-byte word
BuffersWithoutWords == Len(args.data) < 4 => HostEndiannessIndependent

----------------------------------------------------------------------------
(* Two calls of create_hashes on batches that agree on one row. *)

\* the array with every row but row i made null ("null") or made a copy of
\* row i ("copy"); the fields of a struct are changed with it
RECURSIVE Vary(_, _, _)
Vary(array, i, mode) ==
    [array EXCEPT
        !.valid = [j \in 1..array.len |->
                      IF j = i THEN array.valid[j]
                      ELSE IF mode = "null" THEN FALSE ELSE array.valid[i]],
        !.values = [j \in 1..Len(array.values) |->
                      IF mode = "null" THEN array.values[j] ELSE array.values[i]],
        !.children = IF array.data_type.id = "Struct"
                     THEN [c \in 1..Len(array.children) |-> Vary(array.children[c], i, mode)]
                     ELSE array.children]

VaryBatch(arrays_, i, mode) == [c \in 1..Len(arrays_) |-> Vary(arrays_[c], i, mode)]

\* the accumulators with every one but that of row i replaced
VaryAccumulators(hf, hashes_buffer_, i) ==
    [j \in 1..Len(hashes_buffer_) |->
        IF j = i THEN hashes_buffer_[j] ELSE Accumulator(hf, 1000 + j)]

InitRows ==
    /\ target_endian = "little"
    /\ h \in {"murmur3", "xxhash64"}
    /\ \E n \in 1..MaxRows :
         /\ \/ \E k \in 1..Len(Kinds), nulls \in {"none", "some"} :
                 arrays = <<Column(Kinds[k], nulls, n)>>
            \/ \E m \in 2..MaxCols : \E q \in SeqsOf(1..Len(CoreKinds), m) :
                 arrays = CoreBatch(q, n)
         /\ \E seeding \in {"42", "rows"} : hashes_buffer = Accumulators(h, seeding, n)
         /\ \E i \in 1..n, mode \in {"null", "copy"} : args = [row |-> i, mode |-> mode]
    /\ col = 0 /\ result = "idle" /\ entry = <<>> /\ errrow = 0
    /\ ret = <<>>

\* create_hashes on the batch, and on the batch with the other rows changed
CallCreateHashesTwice ==
    /\ result = "idle"
    /\ ret' = <<create_hashes(arrays, hashes_buffer, h),
                create_hashes(VaryBatch(arrays, args.row, args.mode),
                              VaryAccumulators(h, hashes_buffer, args.row), h)>>
    /\ result' = "done"
    /\ UNCHANGED <<target_endian, arrays, hashes_buffer, h, col, entry, errrow, args>>

NextRows == CallCreateHashesTwice

SpecRows == InitRows /\ [][NextRows]_vars

\* C18 (row independence): two batches of the same column types and buffer
\* length that agree on row i, in every column and in the starting
\* accumulator, and on both of which create_hashes succeeds, end with the same
\* accumulator of row i, whatever their other rows hold.
RowIndependence ==
    (result = "done" /\ ret[1].status = "ok" /\ ret[2].status = "ok")
        => ret[1].buf[args.row] = ret[2].buf[args.row]

\* both calls succeeded on a two-row dictionary column, and ended with
\* different accumulators in the row that was changed
HashedTwoBatchesAgreeingOnOneRow ==
    /\ result = "done" /\ ret[1].status = "ok" /\ ret[2].status = "ok"
    /\ Len(arrays) = 1 /\ arrays[1].data_type.id = "Dictionary" /\ arrays[1].len = 2
    /\ args = [row |-> 2, mode |-> "copy"]
    /\ ret[1].buf[1] # ret[2].buf[1]
    /\ ret[1].buf[2] # hashes_buffer[2]
====
